---- MODULE Spec2Model ----
(***************************************************************************)
(* Model of download-model.py: main() creates the output directory,        *)
(* exports the model, downloads the tokenizer, saves the model, renames a  *)
(* stray *.onnx file to model.onnx when model.onnx is missing, saves the   *)
(* tokenizer and prints the completion message.                            *)
(*                                                                         *)
(* A file name is a pair <<stem, extension>>, so that the glob "*.onnx"    *)
(* is a test on the name.  The output directory is a function from the     *)
(* names present in it to the run that wrote the file (0: present before   *)
(* the first run).                                                         *)
(***************************************************************************)
EXTENDS Integers, Sequences, FiniteSets, TLC

VARIABLES
    pc,         \* position of main(): the step about to execute, "done" or "failed"
    run,        \* number of the current invocation of the script
    dirKind,    \* what the path models/ is: "absent", "dir" or "file"
    files,      \* content of models/: name -> run that wrote it
    model,      \* the model handle of main(): "none" or "loaded"
    tokenizer,  \* the tokenizer handle of main(): "none" or "loaded"
    out,        \* messages printed by the current run
    raised,     \* the step whose call raised in the current run, or "none"
    log,        \* history: steps the current run has executed, in order
    saved,      \* history: names model.save_pretrained wrote in the current run
    renamed,    \* history: <<old name>> when the current run renamed a file, else <<>>
    dir0,       \* history: dirKind when the current run started
    files0      \* history: files when the current run started

vars == <<pc, run, dirKind, files, model, tokenizer, out, raised, log, saved,
          renamed, dir0, files0>>

\* Number of invocations of the script that are explored.
MaxRuns == 2

\* OUTPUT_DIR / "model.onnx"
ONNX_FILE == <<"model", "onnx">>

\* Names the model save step may write: any of the *.onnx names, and a
\* file that is not an ONNX file.
ModelFiles ==
    {ONNX_FILE, <<"model_quantized", "onnx">>, <<"encoder", "onnx">>,
     <<"config", "json">>}

\* Files tokenizer.save_pretrained writes.
TokFiles == {<<"tokenizer", "json">>}

Names == ModelFiles \cup TokFiles

EmptyDir == [n \in {} |-> 0]

\* Every content the output directory may have before the first run.
PriorDirs == {[n \in S |-> 0] : S \in SUBSET Names}

Range(s) == {s[i] : i \in 1..Len(s)}

\* The path's content with the names W (re)written by run r.
Write(fs, W, r) == [n \in (DOMAIN fs) \cup W |-> IF n \in W THEN r ELSE fs[n]]

----------------------------------------------------------------------------
\* Path operations used by main().

\* A recreating mkdir: an existing directory is replaced by an empty one.
mkdir_recreate(kind, fs) ==
    IF kind = "file"
    THEN [raised |-> TRUE, kind |-> kind, files |-> fs]
    ELSE [raised |-> FALSE, kind |-> "dir", files |-> EmptyDir]

\* A mkdir that is skipped: nothing is created and nothing is raised.
mkdir_skipped(kind, fs) == [raised |-> FALSE, kind |-> kind, files |-> fs]

\* OUTPUT_DIR.mkdir(exist_ok=True): creates the directory when the path is
\* absent, leaves an existing directory alone, raises FileExistsError when
\* the path is a regular file.
mkdir(kind, fs) ==
    IF kind = "file"
    THEN [raised |-> TRUE, kind |-> kind, files |-> fs]
    ELSE [raised |-> FALSE, kind |-> "dir", files |-> fs]

\* An existence test on another path (the name relative to the working
\* directory, where it is never present).
exists_elsewhere(fs, name) == FALSE

\* onnx_file.exists()
exists(fs, name) == name \in DOMAIN fs

\* OUTPUT_DIR.glob("*.onnx"): the entries of the directory whose name ends
\* in .onnx; the order in which they are produced is the file system's.
glob(fs) == {n \in DOMAIN fs : n[2] = "onnx"}

\* A rename that copies: the old name stays.
rename_copy(fs, f, target) ==
    [n \in (DOMAIN fs) \cup {target} |-> IF n = target THEN fs[f] ELSE fs[n]]

\* f.rename(target): target names the file f named; f is no longer present.
rename(fs, f, target) ==
    [n \in ((DOMAIN fs) \ {f}) \cup {target} |-> IF n = target THEN fs[f] ELSE fs[n]]

----------------------------------------------------------------------------
Init ==
    /\ pc = "mkdir"
    /\ run = 1
    /\ dirKind \in {"absent", "dir", "file"}
    /\ files \in (IF dirKind = "dir" THEN PriorDirs ELSE {EmptyDir})
    /\ model = "none"
    /\ tokenizer = "none"
    /\ out = <<>>
    /\ raised = "none"
    /\ log = <<>>
    /\ saved = {}
    /\ renamed = <<>>
    /\ dir0 = dirKind
    /\ files0 = files

\* Lines 18-21: the first status message, then the directory creation.
MkDir ==
    /\ pc = "mkdir"
    /\ LET r == mkdir(dirKind, files) IN
        /\ dirKind' = r.kind
        /\ files' = r.files
        /\ pc' = IF r.raised THEN "failed" ELSE "export"
        /\ raised' = IF r.raised THEN "mkdir" ELSE raised
    /\ out' = Append(out, "downloading")
    /\ log' = Append(log, "mkdir")
    /\ UNCHANGED <<run, model, tokenizer, saved, renamed, dir0, files0>>

\* An export that writes its result into the output directory at once.
Export_into_output ==
    /\ pc = "export"
    /\ out' = Append(out, "converting")
    /\ log' = Append(log, "export")
    /\ \/ /\ \E W \in SUBSET ModelFiles : files' = Write(files, W, run)
          /\ model' = "loaded"
          /\ pc' = "tokdl"
          /\ UNCHANGED raised
       \/ /\ pc' = "failed"
          /\ raised' = "export"
          /\ UNCHANGED <<model, files>>
    /\ UNCHANGED <<run, dirKind, tokenizer, saved, renamed, dir0, files0>>

\* Lines 24-28: the second status message, then
\* ORTModelForFeatureExtraction.from_pretrained(MODEL_NAME, export=True),
\* which returns the model handle or raises.  OUTPUT_DIR is not passed to it.
Export ==
    /\ pc = "export"
    /\ out' = Append(out, "converting")
    /\ log' = Append(log, "export")
    /\ \/ /\ model' = "loaded"
          /\ pc' = "tokdl"
          /\ UNCHANGED raised
       \/ /\ pc' = "failed"
          /\ raised' = "export"
          /\ UNCHANGED model
    /\ UNCHANGED <<run, dirKind, files, tokenizer, saved, renamed, dir0, files0>>

\* A tokenizer download whose failure is swallowed: main() carries on.
TokenizerDownload_swallowed ==
    /\ pc = "tokdl"
    /\ out' = Append(out, "tokenizer")
    /\ log' = Append(log, "tokdl")
    /\ \/ /\ tokenizer' = "loaded"
          /\ pc' = "save"
          /\ UNCHANGED raised
       \/ /\ pc' = "save"
          /\ raised' = "tokdl"
          /\ UNCHANGED tokenizer
    /\ UNCHANGED <<run, dirKind, files, model, saved, renamed, dir0, files0>>

\* Lines 31-32: the third status message, then
\* AutoTokenizer.from_pretrained(MODEL_NAME), which returns or raises.
TokenizerDownload ==
    /\ pc = "tokdl"
    /\ out' = Append(out, "tokenizer")
    /\ log' = Append(log, "tokdl")
    /\ \/ /\ tokenizer' = "loaded"
          /\ pc' = "save"
          /\ UNCHANGED raised
       \/ /\ pc' = "failed"
          /\ raised' = "tokdl"
          /\ UNCHANGED tokenizer
    /\ UNCHANGED <<run, dirKind, files, model, saved, renamed, dir0, files0>>

\* A model save after which the rename check is skipped.
SaveModel_skips_rename ==
    /\ pc = "save"
    /\ log' = Append(log, "save")
    /\ \E W \in SUBSET ModelFiles :
        /\ files' = Write(files, W, run)
        /\ saved' = W
    /\ \/ /\ pc' = "toksave"
          /\ UNCHANGED raised
       \/ /\ pc' = "failed"
          /\ raised' = "save"
    /\ UNCHANGED <<run, dirKind, model, tokenizer, out, renamed, dir0, files0>>

\* Lines 35-36: model.save_pretrained(OUTPUT_DIR).  The names it writes are
\* the library's choice; when it raises, the names written so far stay.
SaveModel ==
    /\ pc = "save"
    /\ log' = Append(log, "save")
    /\ \E W \in SUBSET ModelFiles :
        /\ files' = Write(files, W, run)
        /\ saved' = W
    /\ \/ /\ pc' = "rename"
          /\ UNCHANGED raised
       \/ /\ pc' = "failed"
          /\ raised' = "save"
    /\ UNCHANGED <<run, dirKind, model, tokenizer, out, renamed, dir0, files0>>

\* Lines 40-45: when model.onnx is missing, the first entry the glob
\* produces is renamed to model.onnx and the loop is left.
RenameIfNeeded ==
    /\ pc = "rename"
    /\ log' = Append(log, "rename")
    /\ pc' = "toksave"
    /\ IF exists(files, ONNX_FILE)
       THEN UNCHANGED <<files, renamed>>
       ELSE IF glob(files) = {}
            THEN UNCHANGED <<files, renamed>>
            ELSE \E f \in glob(files) :
                    /\ files' = rename(files, f, ONNX_FILE)
                    /\ renamed' = <<f>>
    /\ UNCHANGED <<run, dirKind, model, tokenizer, out, raised, saved, dir0, files0>>

\* Line 48: tokenizer.save_pretrained(OUTPUT_DIR).
SaveTokenizer ==
    /\ pc = "toksave"
    /\ log' = Append(log, "toksave")
    /\ \/ /\ files' = Write(files, TokFiles, run)
          /\ pc' = "report"
          /\ UNCHANGED raised
       \/ /\ \E W \in SUBSET TokFiles : files' = Write(files, W, run)
          /\ pc' = "failed"
          /\ raised' = "toksave"
    /\ UNCHANGED <<run, dirKind, model, tokenizer, out, saved, renamed, dir0, files0>>

\* Lines 50-53: the completion message.
Report ==
    /\ pc = "report"
    /\ log' = Append(log, "report")
    /\ out' = out \o <<"success", "model_path", "tokenizer_path", "next_step">>
    /\ pc' = "done"
    /\ UNCHANGED <<run, dirKind, files, model, tokenizer, raised, saved, renamed,
                   dir0, files0>>

\* Lines 55-56: the script is invoked again, on the directory the earlier
\* invocation left.
NewRun ==
    /\ pc \in {"done", "failed"}
    /\ run < MaxRuns
    /\ run' = run + 1
    /\ pc' = "mkdir"
    /\ model' = "none"
    /\ tokenizer' = "none"
    /\ out' = <<>>
    /\ raised' = "none"
    /\ log' = <<>>
    /\ saved' = {}
    /\ renamed' = <<>>
    /\ dir0' = dirKind
    /\ files0' = files
    /\ UNCHANGED <<dirKind, files>>

\* The steps of main().
Main ==
    \/ MkDir
    \/ Export
    \/ TokenizerDownload
    \/ SaveModel
    \/ RenameIfNeeded
    \/ SaveTokenizer
    \/ Report

Next == Main \/ NewRun

Spec == Init /\ [][Next]_vars

\* The interpreter keeps executing main(), and every library call returns
\* or raises.
FairSpec == Spec /\ WF_vars(Main)

----------------------------------------------------------------------------
\* Properties.

Terminal == {"done", "failed"}

\* The steps of main() in the order of its lines.
Order == <<"mkdir", "export", "tokdl", "save", "rename", "toksave", "report">>

IsPrefix(s, t) == Len(s) <= Len(t) /\ \A i \in 1..Len(s) : s[i] = t[i]

Count(s, x) == Cardinality({i \in 1..Len(s) : s[i] = x})

OnnxNames(S) == {n \in S : n[2] = "onnx"}

\* C1: after a successful run the output directory holds exactly one
\* *.onnx file, named model.onnx, and the tokenizer files, whatever the
\* directory held before and whatever the model save step wrote.
C1_ExactlyOneModelArtifact ==
    pc = "done" =>
        /\ OnnxNames(DOMAIN files) = {ONNX_FILE}
        /\ TokFiles \subseteq DOMAIN files

\* C2: when the model save step wrote an ONNX file and none named
\* model.onnx, model.onnx exists once the rename step is over, and a file
\* that was renamed is no longer present under its old name.
C2_RenameYieldsExpectedName ==
    (/\ pc \in {"toksave", "report", "done"}
     /\ OnnxNames(saved) # {}
     /\ ONNX_FILE \notin saved)
    => /\ ONNX_FILE \in DOMAIN files
       /\ renamed # <<>> => renamed[1] \notin DOMAIN files

C2_Witness ==
    /\ pc = "toksave"
    /\ ONNX_FILE \notin saved
    /\ renamed # <<>>
    /\ renamed[1] \in saved
    /\ files[ONNX_FILE] = run

\* C3: when the model export or the tokenizer download raises, the run has
\* ended and the output directory holds exactly the files it held when the
\* run started, none of them written by this run.
C3_NoOutputOnDownloadFailure ==
    raised \in {"export", "tokdl"} =>
        /\ pc = "failed"
        /\ files = files0
        /\ saved = {}
        /\ renamed = <<>>
        /\ \A n \in DOMAIN files : files[n] # run

C3_Witness ==
    /\ pc = "failed"
    /\ raised = "tokdl"
    /\ dir0 = "absent"
    /\ dirKind = "dir"
    /\ files = EmptyDir

\* C4: the directory-creation step creates the directory (empty) when the
\* path is absent; when the directory exists the step does not raise and
\* the directory and every file in it are as before.
C4_MkdirFrame ==
    [][pc = "mkdir" =>
        /\ dirKind = "absent" =>
              /\ dirKind' = "dir"
              /\ files' = EmptyDir
              /\ pc' = "export"
        /\ dirKind = "dir" =>
              /\ dirKind' = "dir"
              /\ files' = files
              /\ pc' = "export"
              /\ raised' = "none"]_vars

C4_Witness ==
    /\ pc = "export"
    /\ dir0 = "dir"
    /\ files0 # EmptyDir
    /\ dirKind = "dir"
    /\ files = files0

\* C5: every step that changes the content of the output directory is
\* taken after the directory-creation step of the run has completed
\* without raising, with the directory existing before and after it.
C5_DirExistsAtEveryWrite ==
    [][files' # files =>
        /\ dirKind = "dir"
        /\ dirKind' = "dir"
        /\ Len(log) >= 1
        /\ log[1] = "mkdir"
        /\ raised = "none"]_vars

C5_Witness ==
    /\ pc = "rename"
    /\ dir0 = "absent"
    /\ saved # {}
    /\ DOMAIN files = saved

\* C6: a call that raises ends the run at that step: it is the last step
\* the run executes, the completion message is not printed, and no step is
\* executed twice in a run.
C6_FailurePropagates ==
    /\ \A x \in Range(log) : Count(log, x) = 1
    /\ pc = "failed" => raised # "none"
    /\ raised # "none" =>
          /\ pc = "failed"
          /\ log[Len(log)] = raised
          /\ "success" \notin Range(out)

C6_Witness ==
    /\ pc = "failed"
    /\ raised = "save"
    /\ saved # {}
    /\ tokenizer = "loaded"

\* C7: the rename step changes nothing when model.onnx exists; otherwise
\* it changes nothing or gives one *.onnx file the name model.onnx, every
\* other file keeping its name and content.  The number of files is the
\* same before and after.
C7_RenameGuardedAndBounded ==
    [][pc = "rename" =>
        /\ Cardinality(DOMAIN files') = Cardinality(DOMAIN files)
        /\ IF ONNX_FILE \in DOMAIN files
           THEN files' = files /\ renamed' = <<>>
           ELSE \/ files' = files /\ renamed' = <<>>
                \/ \E f \in OnnxNames(DOMAIN files) :
                      /\ renamed' = <<f>>
                      /\ DOMAIN files' = ((DOMAIN files) \ {f}) \cup {ONNX_FILE}
                      /\ files'[ONNX_FILE] = files[f]
                      /\ \A n \in (DOMAIN files) \ {f} : files'[n] = files[n]]_vars

C7_Witness ==
    /\ pc = "toksave"
    /\ renamed # <<>>
    /\ Cardinality(OnnxNames(DOMAIN files)) >= 2
    /\ <<"config", "json">> \in DOMAIN files

\* C8: the steps of a run are executed in the order of main()'s lines,
\* each at most once; the completion message is printed only when all of
\* them have been executed; and every run ends.
C8_FixedOrderAndTermination ==
    /\ [](/\ IsPrefix(log, Order)
          /\ pc \notin Terminal => pc = Order[Len(log) + 1]
          /\ pc = "done" => log = Order
          /\ "success" \in Range(out) => log = Order)
    /\ (pc \notin Terminal) ~> (pc \in Terminal)

C8_Witness ==
    /\ pc = "done"
    /\ log = Order
    /\ run = MaxRuns

\* C9: whenever the completion message has been printed, a file named
\* model.onnx exists in the output directory.
C9_SuccessImpliesModelFile ==
    "success" \in Range(out) => ONNX_FILE \in DOMAIN files

\* C10: after a successful run whose model save step wrote an ONNX file,
\* model.onnx is a file written by that run.
C10_ModelFileIsThisRuns ==
    (pc = "done" /\ OnnxNames(saved) # {}) =>
        /\ ONNX_FILE \in DOMAIN files
        /\ files[ONNX_FILE] = run

====
